---- MODULE Spec2Model ----
(***************************************************************************)
(* A model of the AML compliance engine: the customer profiler             *)
(* (src/src/modules/customer_profiler.py), the anomaly detector            *)
(* (src/src/modules/anomaly_detector.py), the ML predictor with its        *)
(* persistence layer (src/src/modules/ml_predictor.py) and the             *)
(* orchestrating system (src/src/aml_system.py).                           *)
(*                                                                         *)
(* Numbers that the code keeps as floats are kept here as exact rationals  *)
(* [num, den] with den > 0; floating-point rounding is not modelled.       *)
(***************************************************************************)
EXTENDS Integers, Sequences, FiniteSets, TLC

VARIABLES
    df,          \* the transaction dataset shared by the components (a sequence of rows)
    profiles,    \* CustomerProfiler.profiles: None, or the list of profile records
    anomalies,   \* AnomalyDetector.anomalies: None, or the list of anomaly records
    iso_forest,  \* what IsolationForest(random_state=42), fitted on df, reports for
                 \* each feature row: fixed by the dataset, unknown to the detector
    ml_predictor, \* AMLComplianceSystem.ml_predictor: None, or the MLPredictor's fields
    package_file, \* the file at MLPredictor.package_path: None (absent) or its content
    held_out,    \* what fitting and evaluating the classifiers (random_state=42)
                 \* gives on each dataset: fixed by the dataset
    model_file,  \* the file at MLPredictor.model_path: None (absent) or its content
    last,        \* the last call made on the system or the predictor, and how it ended
    model_since_load \* history: whether, since the most recent load_data, a training
                 \* run has selected a model or a package load has returned True

mlvars == <<held_out, ml_predictor, package_file, model_file, last, model_since_load>>

vars == <<df, profiles, anomalies, iso_forest, held_out, ml_predictor, package_file, model_file,
          last, model_since_load>>

\* Python's None and a present value: an optional is a sequence of length 0 or 1
None == <<>>

Some(x) == <<x>>

Get(o) == o[1]

----------------------------------------------------------------------------
(* Bounds and input alphabets                                              *)

\* the largest number of rows of a dataset
MaxTxns == 2

Accounts == {"ACC0001", "ACC0002"}

\* the accounts that send in the profiler's datasets: ACC0001 sends to itself
\* and to ACC0002, so ACC0002 only ever receives
Senders == {"ACC0001"}

Locations == {"US-NY", "AE-DXB"}

\* amounts that reach both tier boundaries of the profiler:
\* one row of 20000, one of 80000, and the pair (20000, 80000) of mean 50000
ProfilerAmounts == {9500, 20000, 80000}

\* the rows of the identical block that a detector dataset may start with, so
\* that a single differing amount lies more than 3 standard deviations out
BulkRows == 10

\* 02:30 (early), 05:00:00 (minute 300), 22:00:00 and 22:00:30 (minute 1320),
\* 22:01 (late)
AnomalyTimes == {<<2, 30, 0>>, <<5, 0, 0>>, <<22, 0, 0>>, <<22, 0, 30>>, <<22, 1, 0>>}

\* what IsolationForest may report for a row: fit_predict's label (-1 outlier,
\* 1 inlier) and score_samples' raw score
IsoOutcomes ==
    {[label |-> -1, score |-> [num |-> -30, den |-> 100]],
     [label |-> 1, score |-> [num |-> -105, den |-> 1000]],
     [label |-> 1, score |-> [num |-> 5, den |-> 100]]}

\* every categorical value of the model, in the order Python sorts strings
SortedValues ==
    <<"ACH", "AE-DXB", "Barter", "Card", "EUR", "GBP", "HK-HKG", "UK-LDN", "US-NY", "USD", "Wire">>

----------------------------------------------------------------------------
(* Helpers: sequences and exact rationals                                  *)

Min(a, b) == IF a <= b THEN a ELSE b

Max(a, b) == IF a >= b THEN a ELSE b

RECURSIVE SumAmount(_)
\* pandas Series.sum() over the Amount column
SumAmount(txns) ==
    IF txns = <<>> THEN 0 ELSE Head(txns).Amount + SumAmount(Tail(txns))

RECURSIVE SumLabel(_)
\* pandas Series.sum() over the Is_laundering column
SumLabel(txns) ==
    IF txns = <<>> THEN 0 ELSE Head(txns).Is_laundering + SumLabel(Tail(txns))

\* all sequences over S of length at most n
SeqsUpTo(S, n) == UNION {[1..k -> S] : k \in 0..n}

\* the orders in which a Python set of accounts can be iterated
Orderings(S) ==
    {o \in [1..Cardinality(S) -> S] : \A i, j \in DOMAIN o : o[i] = o[j] => i = j}

\* a rational number num/den, den > 0
Rat(n, d) == [num |-> n, den |-> d]

RatLe(a, b) == a.num * b.den <= b.num * a.den

RatLt(a, b) == a.num * b.den < b.num * a.den

RatEq(a, b) == a.num * b.den = b.num * a.den

RatOfInt(n) == Rat(n, 1)

RatAdd(a, b) == Rat(a.num * b.den + b.num * a.den, a.den * b.den)

\* np.clip(x, lo, hi) for integers lo <= hi
RatClip(x, lo, hi) ==
    IF RatLt(x, RatOfInt(lo)) THEN RatOfInt(lo)
    ELSE IF RatLt(RatOfInt(hi), x) THEN RatOfInt(hi)
    ELSE x

\* the position of a string in Python's sort order
Rank(v) == CHOOSE i \in DOMAIN SortedValues : SortedValues[i] = v

\* LabelEncoder: classes_ is the sorted set of the fitted values, and a value's
\* code is its 0-based position in classes_
EncoderCode(classes, v) == Cardinality({u \in classes : Rank(u) < Rank(v)})

----------------------------------------------------------------------------
(* Transactions                                                            *)

\* one row of the dataset, with the columns DataManager.load_data requires
\* (Date and Laundering_type, which no modelled operation reads, are left out);
\* Time is <<hour, minute, second>>, the parsed form of an "HH:MM:SS" string
Row(time, sender, receiver, amount, pcur, rcur, sloc, rloc, ptype, label) ==
    [Time                   |-> time,
     Sender_account         |-> sender,
     Receiver_account       |-> receiver,
     Amount                 |-> amount,
     Payment_currency       |-> pcur,
     Received_currency      |-> rcur,
     Sender_bank_location   |-> sloc,
     Receiver_bank_location |-> rloc,
     Payment_type           |-> ptype,
     Is_laundering          |-> label]

\* the record of a call: the operation, its argument, "returned" or the class
\* of the exception it raised, the exception's message, and the returned value
Call(op, arg, outcome, message, value) ==
    [op |-> op, arg |-> arg, outcome |-> outcome, message |-> message, value |-> value]

NoCall == Call("__init__", <<>>, "returned", "", None)

Raised(class, message) == [outcome |-> class, message |-> message, value |-> None]

Returned(value) == [outcome |-> "returned", message |-> "", value |-> Some(value)]

\* AMLComplianceSystem.__init__: no predictor yet, and nothing on disk
IdleML ==
    /\ held_out = <<>>
    /\ ml_predictor = None
    /\ package_file = None
    /\ model_file = None
    /\ last = NoCall
    /\ model_since_load = FALSE

----------------------------------------------------------------------------
(* Customer profiler                                                       *)

HIGH_RISK_THRESHOLD == 70

MEDIUM_RISK_THRESHOLD == 40

\* the locations _count_high_risk_locations treats as high-risk
high_risk == {"AE-DXB", "HK-HKG"}

\* the rows the profiler is run on: every field that a profile reads varies
ProfilerRows ==
    {Row(<<12, 0, 0>>, s, r, a, "USD", "USD", sl, rl, "Wire", l) :
        s \in Senders, r \in Accounts, a \in ProfilerAmounts,
        sl \in Locations, rl \in Locations, l \in {0, 1}}

sent_txns(d, account) == SelectSeq(d, LAMBDA t : t.Sender_account = account)

recv_txns(d, account) == SelectSeq(d, LAMBDA t : t.Receiver_account = account)

\* pd.concat([sent_txns, recv_txns]): a row whose sender and receiver are both
\* the account is in both parts, so it occurs twice
all_txns(d, account) == sent_txns(d, account) \o recv_txns(d, account)

IsCrossBorder(t) == t.Sender_bank_location # t.Receiver_bank_location

_count_cross_border_transactions(sent, recv) ==
    Len(SelectSeq(sent, IsCrossBorder)) + Len(SelectSeq(recv, IsCrossBorder))

_count_high_risk_locations(transactions) ==
    Len(SelectSeq(transactions,
                  LAMBDA t : \/ t.Sender_bank_location \in high_risk
                             \/ t.Receiver_bank_location \in high_risk))

\* a variant whose band is (9000, 10000] instead of [9000, 10000)
_count_structuring_upper_closed(transactions) ==
    Len(SelectSeq(transactions, LAMBDA t : t.Amount > 9000 /\ t.Amount <= 10000))

_count_structuring(transactions) ==
    Len(SelectSeq(transactions, LAMBDA t : t.Amount >= 9000 /\ t.Amount < 10000))

\* the profile dict of one account, or None when the account has no rows
_create_customer_profile(d, account) ==
    LET sent == sent_txns(d, account)
        recv == recv_txns(d, account)
        all  == all_txns(d, account)
    IN  IF Len(all) = 0 THEN None
        ELSE Some(
             [account                |-> account,
              total_transactions     |-> Len(all),
              sent_transactions      |-> Len(sent),
              received_transactions  |-> Len(recv),
              total_volume           |-> SumAmount(all),
              sent_volume            |-> SumAmount(sent),
              received_volume        |-> SumAmount(recv),
              avg_transaction        |-> Rat(SumAmount(all), Len(all)),
              suspicious_transactions |-> SumLabel(all),
              cross_border_count     |-> _count_cross_border_transactions(sent, recv),
              high_risk_countries    |-> _count_high_risk_locations(all),
              structuring_indicators |-> _count_structuring(all)])

\* the amount-tier factor: 20, 10, or nothing appended (0)
AmountTier(profile) ==
    IF RatLt(RatOfInt(50000), profile.avg_transaction) THEN 20
    ELSE IF RatLt(RatOfInt(20000), profile.avg_transaction) THEN 10
    ELSE 0

\* a variant with no clamping at all: no cap on the two count factors and no
\* cap on the total
RiskScoreUnclamped(profile) ==
    LET den == Max(profile.total_transactions, 1)
    IN  Rat(profile.suspicious_transactions * 30
              + AmountTier(profile) * den
              + profile.cross_border_count * 20
              + (profile.high_risk_countries * 5) * den
              + (profile.structuring_indicators * 10) * den,
            den)

\* a variant whose structuring factor is capped at 10 instead of 15
RiskScoreStructuringCap10(profile) ==
    LET den == Max(profile.total_transactions, 1)
        sum == profile.suspicious_transactions * 30
                 + AmountTier(profile) * den
                 + profile.cross_border_count * 20
                 + Min(profile.high_risk_countries * 5, 15) * den
                 + Min(profile.structuring_indicators * 10, 10) * den
    IN  Rat(Min(sum, 100 * den), den)

\* risk_score = min(sum(risk_factors), 100), over the denominator
\* max(total_transactions, 1) that the two ratios share
RiskScore(profile) ==
    LET den == Max(profile.total_transactions, 1)
        sum == profile.suspicious_transactions * 30
                 + AmountTier(profile) * den
                 + profile.cross_border_count * 20
                 + Min(profile.high_risk_countries * 5, 15) * den
                 + Min(profile.structuring_indicators * 10, 15) * den
    IN  Rat(Min(sum, 100 * den), den)

\* a variant that tests the boundaries with > instead of >=
RiskClassStrict(risk_score) ==
    IF RatLt(RatOfInt(HIGH_RISK_THRESHOLD), risk_score) THEN "HIGH"
    ELSE IF RatLt(RatOfInt(MEDIUM_RISK_THRESHOLD), risk_score) THEN "MEDIUM"
    ELSE "LOW"

RiskClass(risk_score) ==
    IF RatLe(RatOfInt(HIGH_RISK_THRESHOLD), risk_score) THEN "HIGH"
    ELSE IF RatLe(RatOfInt(MEDIUM_RISK_THRESHOLD), risk_score) THEN "MEDIUM"
    ELSE "LOW"

\* the profile with its two derived fields
ScoredProfile(profile) ==
    [f \in DOMAIN profile \cup {"risk_score", "risk_classification"} |->
        IF f = "risk_score" THEN RiskScore(profile)
        ELSE IF f = "risk_classification" THEN RiskClass(RiskScore(profile))
        ELSE profile[f]]

RatMin(a, b) == IF RatLe(a, b) THEN a ELSE b

RECURSIVE SharedFactorsScore(_, _, _)
\* min(sum, 100) over the factors of the first i profiles of `kept`
SharedFactorsScore(d, kept, i) ==
    IF i = 0 THEN RatOfInt(0)
    ELSE RatMin(RatAdd(SharedFactorsScore(d, kept, i - 1),
                       RiskScore(Get(_create_customer_profile(d, kept[i])))),
                RatOfInt(100))

\* a variant whose risk_factors list is created once, before the loop, so that
\* each account's sum also holds the factors of the accounts scored before it
_calculate_risk_scores_shared_factors(d, order) ==
    LET kept == SelectSeq(order, LAMBDA a : _create_customer_profile(d, a) # None)
    IN  [i \in 1..Len(kept) |->
            LET profile == Get(_create_customer_profile(d, kept[i]))
                score   == SharedFactorsScore(d, kept, i)
            IN  [f \in DOMAIN profile \cup {"risk_score", "risk_classification"} |->
                    IF f = "risk_score" THEN score
                    ELSE IF f = "risk_classification" THEN RiskClass(score)
                    ELSE profile[f]]]

\* the profiles dict filled in the iteration order `order`, scored in the same
\* order (a dict keeps insertion order)
_calculate_risk_scores(d, order) ==
    LET kept == SelectSeq(order, LAMBDA a : _create_customer_profile(d, a) # None)
    IN  [i \in 1..Len(kept) |-> ScoredProfile(Get(_create_customer_profile(d, kept[i])))]

\* a variant that walks the senders only
all_accounts_senders(d) == {d[i].Sender_account : i \in DOMAIN d}

all_accounts(d) ==
    {d[i].Sender_account : i \in DOMAIN d} \cup {d[i].Receiver_account : i \in DOMAIN d}

\* _display_profiling_results reads the risk_classification column of the
\* stored frame; pd.DataFrame([]) has no columns
_display_profiling_results(profile_list) ==
    IF profile_list = <<>> THEN Raised("KeyError", "risk_classification")
    ELSE Returned(profile_list)

\* analyze_customers: the frame is stored before the results are displayed
analyze_customers ==
    /\ \E order \in Orderings(all_accounts(df)) :
          LET profile_list == _calculate_risk_scores(df, order)
              shown == _display_profiling_results(profile_list)
          IN  /\ profiles' = Some(profile_list)
              /\ last' = Call("analyze_customers", <<>>, shown.outcome, shown.message,
                              shown.value)
    /\ UNCHANGED <<df, anomalies, iso_forest, held_out, ml_predictor, package_file,
                   model_file,
                   model_since_load>>

InitProfiler ==
    /\ df \in SeqsUpTo(ProfilerRows, MaxTxns)
    /\ profiles = None
    /\ anomalies = None
    /\ iso_forest = <<>>
    /\ IdleML

NextProfiler == analyze_customers

SpecProfiler == InitProfiler /\ [][NextProfiler]_vars

\* amounts at both ends of the structuring band, inside it, and one large
\* enough to lift a mean above 50000
StructuringAmounts == {9000, 9999, 10000, 200000}

\* the rows of the structuring datasets: domestic, or cross-border into a
\* high-risk location
StructuringRows ==
    {Row(<<12, 0, 0>>, s, r, a, "USD", "USD", "US-NY", rl, "Wire", l) :
        s \in Senders, r \in Accounts, a \in StructuringAmounts,
        rl \in Locations, l \in {0, 1}}

InitStructuring ==
    /\ df \in SeqsUpTo(StructuringRows, MaxTxns)
    /\ profiles = None
    /\ anomalies = None
    /\ iso_forest = <<>>
    /\ IdleML

NextStructuring == analyze_customers

SpecStructuring == InitStructuring /\ [][NextStructuring]_vars

----------------------------------------------------------------------------
(* Anomaly detector                                                        *)

\* hour*60 + minute of the parsed time: the seconds are dropped
time_minutes(t) == t.Time[1] * 60 + t.Time[2]

Column(d, col) == {d[i][col] : i \in DOMAIN d}

\* the feature row of row i: the categorical codes are fitted on the dataset
_prepare_features(d, i) ==
    [Amount               |-> d[i].Amount,
     time_minutes         |-> time_minutes(d[i]),
     payment_type_encoded |-> EncoderCode(Column(d, "Payment_type"), d[i].Payment_type),
     sender_loc_encoded   |->
         EncoderCode(Column(d, "Sender_bank_location"), d[i].Sender_bank_location),
     receiver_loc_encoded |->
         EncoderCode(Column(d, "Receiver_bank_location"), d[i].Receiver_bank_location),
     is_cross_border      |-> IF IsCrossBorder(d[i]) THEN 1 ELSE 0,
     currency_mismatch    |->
         IF d[i].Payment_currency # d[i].Received_currency THEN 1 ELSE 0]

FeatureRows(d) == {_prepare_features(d, i) : i \in DOMAIN d}

\* the dataset with the two isolation columns; iso is the fitted forest's
\* answer for each feature row (equal feature rows get equal answers)
_isolation_forest_detection(d, iso) ==
    [i \in DOMAIN d |->
        d[i] @@ [isolation_anomaly |->
                     IF iso[_prepare_features(d, i)].label = -1 THEN 1 ELSE 0,
                 isolation_score   |-> iso[_prepare_features(d, i)].score]]

RECURSIVE SumSqDev(_, _, _)
\* the sum over the rows of (n*Amount - S)^2, which is n^2 times the sum of the
\* squared deviations from the mean S/n
SumSqDev(txns, n, S) ==
    IF txns = <<>> THEN 0
    ELSE (n * Head(txns).Amount - S) * (n * Head(txns).Amount - S)
           + SumSqDev(Tail(txns), n, S)

\* the square of |(Amount - mean) / std| with the sample standard deviation,
\* or None for NaN (a single row, or a zero standard deviation)
amount_zscore(d, i) ==
    LET n   == Len(d)
        S   == SumAmount(d)
        ssq == SumSqDev(d, n, S)
        dev == n * d[i].Amount - S
    IN  IF n < 2 \/ ssq = 0 THEN None
        ELSE Some(Rat(dev * dev * (n - 1), ssq))

\* amount_zscore > 3; a comparison with NaN is False
amount_anomalies(d, i) ==
    /\ amount_zscore(d, i) # None
    /\ RatLt(RatOfInt(9), Get(amount_zscore(d, i)))

\* a variant that compares the hour alone, so 22:01 is not late
time_anomalies_hour(d, i) == d[i].Time[1] < 5 \/ d[i].Time[1] > 22

time_anomalies(d, i) == time_minutes(d[i]) < 300 \/ time_minutes(d[i]) > 1320

_statistical_detection(d) ==
    [i \in DOMAIN d |->
        d[i] @@ [statistical_anomaly |->
                     IF amount_anomalies(d, i) \/ time_anomalies(d, i) THEN 1 ELSE 0,
                 amount_zscore       |-> amount_zscore(d, i)]]

\* a variant that requires both detectors to agree
composite_anomaly_and(r) ==
    IF r.isolation_anomaly = 1 /\ r.statistical_anomaly = 1 THEN 1 ELSE 0

composite_anomaly(r) ==
    IF r.isolation_anomaly = 1 \/ r.statistical_anomaly = 1 THEN 1 ELSE 0

\* a variant whose continuous part is not clipped
anomaly_risk_score_unclipped(r) ==
    RatAdd(RatOfInt(r.isolation_anomaly * 50 + r.statistical_anomaly * 30),
           Rat(-100 * r.isolation_score.num, r.isolation_score.den))

anomaly_risk_score(r) ==
    RatAdd(RatOfInt(r.isolation_anomaly * 50 + r.statistical_anomaly * 30),
           RatClip(Rat(-100 * r.isolation_score.num, r.isolation_score.den), 0, 20))

\* the isolation results with the statistical columns joined on the row index
_combine_anomaly_results(isolation_results, statistical_results) ==
    [i \in DOMAIN isolation_results |->
        LET joined == isolation_results[i]
                        @@ [statistical_anomaly |->
                                statistical_results[i].statistical_anomaly,
                            amount_zscore       |-> statistical_results[i].amount_zscore]
        IN  joined @@ [composite_anomaly  |-> composite_anomaly(joined),
                       anomaly_risk_score |-> anomaly_risk_score(joined)]]

\* detect_anomalies on a non-empty dataset
detect_anomalies ==
    /\ df # <<>>
    /\ anomalies' = Some(_combine_anomaly_results(
                              _isolation_forest_detection(df, iso_forest),
                              _statistical_detection(df)))
    /\ UNCHANGED <<df, profiles, iso_forest, mlvars>>

\* the rows the detector is run on: the common amount at every time, the
\* other amount at 02:30 and at 05:00:00
AnomalyRows ==
    {Row(t, "ACC0001", "ACC0002", 10, "USD", "USD", "US-NY", "US-NY", "Wire", 0) :
        t \in AnomalyTimes}
    \cup {Row(t, "ACC0001", "ACC0002", 50, "USD", "USD", "US-NY", "US-NY", "Wire", 0) :
             t \in {<<2, 30, 0>>, <<5, 0, 0>>}}

BulkRow == Row(<<12, 0, 0>>, "ACC0001", "ACC0002", 10, "USD", "USD", "US-NY", "US-NY", "Wire", 0)

AnomalyDatasets ==
    {bulk \o free : bulk \in {<<>>, [i \in 1..BulkRows |-> BulkRow]},
                    free \in SeqsUpTo(AnomalyRows, MaxTxns)}

InitAnomaly ==
    /\ df \in AnomalyDatasets
    /\ profiles = None
    /\ anomalies = None
    /\ iso_forest \in [FeatureRows(df) -> IsoOutcomes]
    /\ IdleML

NextAnomaly == detect_anomalies

SpecAnomaly == InitAnomaly /\ [][NextAnomaly]_vars

----------------------------------------------------------------------------
(* Claims about the customer profiler (checked under SpecProfiler)         *)

\* the profiles of the last analyze_customers run, as a set
Produced == IF profiles = None THEN {} ELSE {Get(profiles)[i] : i \in DOMAIN Get(profiles)}

\* the tier term T of C1: 20 above 50000, 10 in (20000, 50000], else 0
C1_T(p) ==
    IF p.avg_transaction.num > 50000 * p.avg_transaction.den THEN 20
    ELSE IF /\ p.avg_transaction.num > 20000 * p.avg_transaction.den
            /\ p.avg_transaction.num <= 50000 * p.avg_transaction.den THEN 10
    ELSE 0

\* the right-hand side of C1 before the cap, times total_transactions
C1_SumTimesTotal(p) ==
    30 * p.suspicious_transactions
      + C1_T(p) * p.total_transactions
      + 20 * p.cross_border_count
      + Min(5 * p.high_risk_countries, 15) * p.total_transactions
      + Min(10 * p.structuring_indicators, 15) * p.total_transactions

\* C1: every profile's risk_score equals min(100, 30*(suspicious/total) + T
\* + 20*(cross_border/total) + min(5*high_risk_countries, 15)
\* + min(10*structuring_indicators, 15)), with T = 20 for a mean above 50000,
\* 10 for a mean in (20000, 50000], and 0 otherwise.
C1_RiskScoreFormula ==
    \A p \in Produced :
        /\ p.total_transactions > 0
        /\ p.risk_score.num * p.total_transactions
             = Min(100 * p.total_transactions, C1_SumTimesTotal(p)) * p.risk_score.den

\* a profile whose mean is exactly 50000 (tier 10), with one of its two rows
\* suspicious and one cross-border through a high-risk location: 15 + 10 + 10 + 5
C1_Witness ==
    \E p \in Produced :
        /\ p.avg_transaction.num = 50000 * p.avg_transaction.den
        /\ p.total_transactions = 2
        /\ p.suspicious_transactions = 1
        /\ p.cross_border_count = 1
        /\ p.high_risk_countries = 1
        /\ p.risk_score.num = 40 * p.risk_score.den

\* C2: every profile has 0 <= risk_score <= 100, whatever the mix of senders,
\* receivers and self-transfers.
C2_RiskScoreRange ==
    \A p \in Produced :
        /\ p.risk_score.den > 0
        /\ 0 <= p.risk_score.num
        /\ p.risk_score.num <= 100 * p.risk_score.den

\* a profile built from self-transfers (each row counted as sent and as
\* received) whose uncapped factors add up to more than 100
C2_Witness ==
    \E p \in Produced :
        /\ p.sent_transactions = 2
        /\ p.received_transactions = 2
        /\ 30 * p.suspicious_transactions + 20 * p.cross_border_count
             + (5 * p.high_risk_countries + 10 * p.structuring_indicators)
                 * p.total_transactions
             > 100 * p.total_transactions

\* C3: risk_classification is HIGH iff risk_score >= 70, MEDIUM iff
\* 40 <= risk_score < 70, LOW iff risk_score < 40; exactly one label is given.
C3_Classification ==
    \A p \in Produced :
        LET n == p.risk_score.num
            d == p.risk_score.den
        IN  /\ p.risk_classification \in {"HIGH", "MEDIUM", "LOW"}
            /\ (p.risk_classification = "HIGH") <=> (n >= 70 * d)
            /\ (p.risk_classification = "MEDIUM") <=> (n >= 40 * d /\ n < 70 * d)
            /\ (p.risk_classification = "LOW") <=> (n < 40 * d)

\* one profile scoring exactly 70 (HIGH) beside one scoring exactly 40 (MEDIUM)
C3_Witness ==
    /\ \E p \in Produced :
          p.risk_score.num = 70 * p.risk_score.den /\ p.risk_classification = "HIGH"
    /\ \E p \in Produced :
          p.risk_score.num = 40 * p.risk_score.den /\ p.risk_classification = "MEDIUM"

----------------------------------------------------------------------------
(* Claims about the anomaly detector (checked under SpecAnomaly)           *)

\* the columns of the input rows
InputColumns == DOMAIN BulkRow

\* C4: every record of detect_anomalies has composite_anomaly = 1 iff
\* isolation_anomaly = 1 or statistical_anomaly = 1, and there is exactly one
\* record per input transaction (record i carries row i).
C4_CompositeIsOr ==
    anomalies # None =>
        /\ Len(Get(anomalies)) = Len(df)
        /\ \A i \in DOMAIN Get(anomalies) :
              LET r == Get(anomalies)[i]
              IN  /\ r.composite_anomaly \in {0, 1}
                  /\ (r.composite_anomaly = 1)
                       <=> (r.isolation_anomaly = 1 \/ r.statistical_anomaly = 1)
                  /\ \A c \in InputColumns : r[c] = df[i][c]

\* a run of more than BulkRows rows in which one record is flagged by the
\* forest alone, one by the statistical rules alone (its amount more than 3
\* standard deviations out), and one by neither
C4_Witness ==
    /\ anomalies # None
    /\ Len(df) > BulkRows
    /\ LET rs == Get(anomalies)
       IN  /\ \E i \in DOMAIN rs :
                 /\ rs[i].isolation_anomaly = 1 /\ rs[i].statistical_anomaly = 0
                 /\ rs[i].composite_anomaly = 1
           /\ \E k \in DOMAIN rs :
                 /\ rs[k].isolation_anomaly = 0 /\ rs[k].statistical_anomaly = 1
                 /\ rs[k].amount_zscore # None
                 /\ Get(rs[k].amount_zscore).num > 9 * Get(rs[k].amount_zscore).den
                 /\ rs[k].composite_anomaly = 1
           /\ \E l \in DOMAIN rs : rs[l].composite_anomaly = 0

\* C5: anomaly_risk_score = 50*isolation_anomaly + 30*statistical_anomaly
\* + clamp(-100*isolation_score, 0, 20), and so lies in [0, 100], for every
\* raw score of the density model.
C5_AnomalyRiskScore ==
    anomalies # None =>
        \A i \in DOMAIN Get(anomalies) :
            LET r    == Get(anomalies)[i]
                x    == r.anomaly_risk_score
                base == 50 * r.isolation_anomaly + 30 * r.statistical_anomaly
                \* -100 * isolation_score = m / d
                m    == -100 * r.isolation_score.num
                d    == r.isolation_score.den
                \* clamp(m / d, 0, 20) = cn / d
                cn   == IF m < 0 THEN 0 ELSE IF m > 20 * d THEN 20 * d ELSE m
            IN  /\ x.den > 0
                /\ x.num * d = (base * d + cn) * x.den
                /\ 0 <= x.num
                /\ x.num <= 100 * x.den

\* one run with a record at 100 (both flags, raw score -0.30, clamped to 20),
\* a record at 0 (no flag, raw score +0.05, clamped to 0) and a record whose
\* continuous part 10.5 is inside the clamp
C5_Witness ==
    /\ anomalies # None
    /\ LET rs == Get(anomalies)
       IN  /\ \E i \in DOMAIN rs :
                 /\ rs[i].anomaly_risk_score.num = 100 * rs[i].anomaly_risk_score.den
                 /\ rs[i].isolation_score.num * 100 = -30 * rs[i].isolation_score.den
           /\ \E j \in DOMAIN rs :
                 /\ rs[j].anomaly_risk_score.num = 0
                 /\ rs[j].isolation_score.num > 0
           /\ \E k \in DOMAIN rs :
                 rs[k].anomaly_risk_score.num * 2 = 21 * rs[k].anomaly_risk_score.den

----------------------------------------------------------------------------
(* ML predictor: src/src/modules/ml_predictor.py *)

\* how many rows a frame handed to predict_risk holds at most
MaxBatch == 2

categorical_features ==
    <<"Payment_type", "Sender_bank_location", "Receiver_bank_location",
      "Payment_currency", "Received_currency">>

CategoricalSet == {categorical_features[k] : k \in DOMAIN categorical_features}

\* f'{feature}_encoded'
encoded ==
    [Payment_type |-> "Payment_type_encoded",
     Sender_bank_location |-> "Sender_bank_location_encoded",
     Receiver_bank_location |-> "Receiver_bank_location_encoded",
     Payment_currency |-> "Payment_currency_encoded",
     Received_currency |-> "Received_currency_encoded"]

\* the columns of an engineered and encoded frame that select_dtypes keeps as
\* numeric, in the frame's column order: the input's numeric columns, then
\* the engineered ones (is_weekend is boolean and is left out), then the
\* encoded ones in the order the loop appends them
NumericColumnOrder ==
    <<"Amount", "Is_laundering", "hour", "is_night_transaction", "log_amount",
      "is_round_amount", "is_structuring_amount", "is_cross_border",
      "is_currency_mismatch", "sender_frequency", "receiver_frequency">>
    \o [k \in DOMAIN categorical_features |-> encoded[categorical_features[k]]]

\* StandardScaler() as constructed, before any fit
UnfittedScaler == [fitted |-> FALSE, fit_on |-> <<>>, n_features_in |-> 0]

\* MLPredictor.__init__
MLPredictor ==
    [model |-> None,
     scaler |-> UnfittedScaler,
     label_encoders |-> <<>>,
     feature_names |-> <<>>,
     model_metrics |-> <<>>]

\* the columns _engineer_features adds to row i of frame d; every row carries
\* a Date, which only is_weekend reads
_engineer_features(d, i) ==
    LET t == d[i]
        hour == t.Time[1]
    IN  [hour |-> hour,
         is_night_transaction |-> IF hour >= 22 \/ hour <= 5 THEN 1 ELSE 0,
         log_amount |-> <<"log1p", t.Amount>>,
         is_round_amount |-> IF t.Amount % 1000 = 0 THEN 1 ELSE 0,
         is_structuring_amount |->
             IF t.Amount >= 9000 /\ t.Amount < 10000 THEN 1 ELSE 0,
         is_cross_border |->
             IF t.Sender_bank_location # t.Receiver_bank_location THEN 1 ELSE 0,
         is_currency_mismatch |->
             IF t.Payment_currency # t.Received_currency THEN 1 ELSE 0,
         sender_frequency |->
             Cardinality({j \in 1..Len(d) : d[j].Sender_account = t.Sender_account}),
         receiver_frequency |->
             Cardinality({j \in 1..Len(d) : d[j].Receiver_account = t.Receiver_account})]

EngineeredColumns ==
    {"hour", "is_night_transaction", "log_amount", "is_round_amount",
     "is_structuring_amount", "is_cross_border", "is_currency_mismatch",
     "sender_frequency", "receiver_frequency"}

\* a variant that engineers the features in self.df itself, without the copy
frame_engineered_in_place(d) == [i \in DOMAIN d |-> d[i] @@ _engineer_features(d, i)]

\* the frame the predictor holds after _prepare_ml_features: the columns are
\* engineered into ml_df = self.df.copy()
frame_after_prepare_ml_features(d) == d

\* LabelEncoder().fit: the classes are the distinct values of the column
FitEncoders(d) ==
    [f \in CategoricalSet |-> {d[i][f] : i \in 1..Len(d)}]

\* LabelEncoder.transform on a column: every value must be a class
Transformable(le, d, f) == \A i \in 1..Len(d) : d[i][f] \in le[f]

\* the encoded column predict_risk writes for feature f: the encoder's codes,
\* or 0 in every row when transform raises ValueError
EncodedColumn(le, d, f) ==
    [i \in 1..Len(d) |->
        IF Transformable(le, d, f) THEN EncoderCode(le[f], d[i][f]) ELSE 0]

\* the columns of the frame after the encoding loop, given the encoders used
ColumnsAfterEncoding(inputColumns, le) ==
    (inputColumns \ (CategoricalSet \cap DOMAIN le))
    \cup EngineeredColumns
    \cup {encoded[f] : f \in (CategoricalSet \cap inputColumns) \cap DOMAIN le}

\* the value of column c in row i of the engineered and encoded frame, where
\* engineered holds the row's engineered columns
FeatureValue(le, d, i, engineered, c) ==
    IF c \in EngineeredColumns THEN engineered[c]
    ELSE IF \E f \in CategoricalSet \cap DOMAIN le : encoded[f] = c
         THEN EncodedColumn(le, d, CHOOSE f \in CategoricalSet : encoded[f] = c)[i]
         ELSE d[i][c]

\* features[self.feature_names] of row i
SelectFeatures(le, names, d, i) ==
    LET engineered == _engineer_features(d, i)
    IN  [k \in DOMAIN names |-> FeatureValue(le, d, i, engineered, names[k])]

\* _prepare_ml_features: fit the encoders, record the feature names, fit the
\* scaler
_prepare_ml_features(p, d) ==
    LET le == [f \in DOMAIN p.label_encoders \cup CategoricalSet |->
                  IF f \in CategoricalSet THEN FitEncoders(d)[f]
                  ELSE p.label_encoders[f]]
        names == SelectSeq(NumericColumnOrder, LAMBDA c : c # "Is_laundering")
    IN  [p EXCEPT !.label_encoders = le,
                  !.feature_names = names,
                  !.scaler = [fitted |-> TRUE, fit_on |-> d,
                              n_features_in |-> Len(names)]]

\* the candidates in the order _train_multiple_models registers them
Candidates == <<"random_forest", "gradient_boosting", "isolation_forest_classifier">>

Supervised == {"random_forest", "gradient_boosting"}

\* a candidate fitted on the training split of d (random_state=42)
FittedModel(name, d, n) == [name |-> name, fit_on |-> d, n_features_in |-> n]

\* _train_multiple_models: every candidate, fitted
_train_multiple_models(d, n) ==
    [k \in DOMAIN Candidates |-> FittedModel(Candidates[k], d, n)]

\* held-out results of a classifier: true/false positives and negatives
Confusion(tp, fp, fn, tn) == [tp |-> tp, fp |-> fp, fn |-> fn, tn |-> tn]

\* precision_score, recall_score and f1_score with zero_division=0, and
\* accuracy_score
precision_score(c) == IF c.tp + c.fp = 0 THEN Rat(0, 1) ELSE Rat(c.tp, c.tp + c.fp)

recall_score(c) == IF c.tp + c.fn = 0 THEN Rat(0, 1) ELSE Rat(c.tp, c.tp + c.fn)

f1_score(c) ==
    IF c.tp = 0 THEN Rat(0, 1)
    ELSE Rat(2 * c.tp, 2 * c.tp + c.fp + c.fn)

accuracy_score(c) == Rat(c.tp + c.tn, c.tp + c.fp + c.fn + c.tn)

Metrics(c) ==
    [accuracy |-> accuracy_score(c), precision |-> precision_score(c),
     recall |-> recall_score(c), f1_score |-> f1_score(c)]

\* the state of the loop of _evaluate_models
EvalState(best_model, best_score, metrics) ==
    [best_model |-> best_model, best_score |-> best_score, metrics |-> metrics]

\* a variant of the loop body with no branch for the isolation forest: its
\* held-out results are compared like a classifier's
EvaluateStepForestCompared(st, model, c) ==
    LET f1 == f1_score(c)
        m  == [n \in DOMAIN st.metrics \cup {model.name} |->
                  IF n = model.name THEN Metrics(c) ELSE st.metrics[n]]
    IN  IF RatLt(st.best_score, f1)
        THEN EvalState(Some(model), f1, m)
        ELSE EvalState(st.best_model, st.best_score, m)

\* one iteration of the loop of _evaluate_models: the isolation forest is
\* scored on accuracy only and never compared; a classifier's metrics are
\* stored and it becomes the best when its F1 is strictly above best_score
EvaluateStep(st, model, c) ==
    IF model.name = "isolation_forest_classifier" THEN st
    ELSE LET f1 == f1_score(c)
             m  == [n \in DOMAIN st.metrics \cup {model.name} |->
                       IF n = model.name THEN Metrics(c) ELSE st.metrics[n]]
         IN  IF RatLt(st.best_score, f1)
             THEN EvalState(Some(model), f1, m)
             ELSE EvalState(st.best_model, st.best_score, m)

RECURSIVE EvaluateFrom(_, _, _, _)
EvaluateFrom(st, models, held, k) ==
    IF k > Len(models) THEN st
    ELSE EvaluateFrom(
             EvaluateStep(st, models[k],
                          IF models[k].name \in DOMAIN held THEN held[models[k].name]
                          ELSE Confusion(0, 0, 0, 0)),
             models, held, k + 1)

\* _evaluate_models: best_model = None, best_score = 0, then the loop
_evaluate_models(p, models, held) ==
    EvaluateFrom(EvalState(None, Rat(0, 1), p.model_metrics), models, held, 1)

\* train_compliance_model on a predictor over frame d, where held gives the
\* classifiers' held-out results: the predictor after the call
train_compliance_model_result(p, d, held) ==
    LET prepared == _prepare_ml_features(p, d)
        st == _evaluate_models(prepared,
                               _train_multiple_models(d, Len(prepared.feature_names)),
                               held)
    IN  [prepared EXCEPT !.model = st.best_model, !.model_metrics = st.metrics]

----------------------------------------------------------------------------
(* Persistence *)

\* the content of a file: unreadable bytes, or a pickled object
Unreadable == Some(None)

Pickled(x) == Some(Some(x))

\* the dict save_complete_package pickles
ml_package(p) ==
    [model |-> p.model,
     scaler |-> p.scaler,
     label_encoders |-> p.label_encoders,
     feature_names |-> p.feature_names,
     model_metrics |-> p.model_metrics,
     timestamp |-> "%Y-%m-%d %H:%M:%S",
     n_features |-> Len(p.feature_names)]

\* a restore that leaves the scaler of the predictor in place
RestoredKeysWithoutScaler == <<"model", "label_encoders", "feature_names">>

\* the entries load_complete_package reads with ml_package[...], in order
RestoredKeys == <<"model", "scaler", "label_encoders", "feature_names">>

\* the assignments of load_complete_package from entry k on: a missing entry
\* raises KeyError, which ends the call with False and keeps what was
\* assigned before it
RECURSIVE RestoreFrom(_, _, _)
RestoreFrom(p, pkg, k) ==
    IF k > Len(RestoredKeys)
    THEN [predictor |->
              [p EXCEPT !.model_metrics =
                  IF "model_metrics" \in DOMAIN pkg THEN pkg.model_metrics ELSE <<>>],
          ok |-> TRUE]
    ELSE IF RestoredKeys[k] \notin DOMAIN pkg
         THEN [predictor |-> p, ok |-> FALSE]
         ELSE RestoreFrom([p EXCEPT ![RestoredKeys[k]] = pkg[RestoredKeys[k]]],
                          pkg, k + 1)

\* load_complete_package on a predictor p with the file as given
load_complete_package_result(p, file) ==
    IF file = None \/ file = Unreadable THEN [predictor |-> p, ok |-> FALSE]
    ELSE RestoreFrom(p, Get(Get(file)), 1)

----------------------------------------------------------------------------
(* Prediction *)

NotTrainedYet == "Model not trained yet. Please run train_compliance_model() first."

MLModelNotTrained == "ML model not trained. Please run run_complete_analysis() first."

\* the columns _engineer_features reads from the frame
EngineeringInputs ==
    {"Time", "Amount", "Sender_bank_location", "Receiver_bank_location",
     "Payment_currency", "Received_currency", "Sender_account", "Receiver_account"}

\* a selection that hands the scaler the named columns in another order
ScoredColumnsReversed(names) ==
    [k \in DOMAIN names |-> names[Len(names) + 1 - k]]

\* features[self.feature_names]: the columns selected for the scaler and the
\* model are the predictor's feature names, in their order
ScoredColumns(names) == names

\* predict_risk below its precondition: engineer, encode, select, scale, score
predict_risk_body(p, transaction_data) ==
    LET inputColumns == DOMAIN transaction_data[1]
        columns == ColumnsAfterEncoding(inputColumns, p.label_encoders)
        names   == ScoredColumns(p.feature_names)
        X       == [i \in 1..Len(transaction_data) |->
                       SelectFeatures(p.label_encoders, names, transaction_data, i)]
    IN  IF ~(EngineeringInputs \subseteq inputColumns)
        THEN Raised("KeyError", "column read by _engineer_features")
        ELSE IF \E k \in DOMAIN names : names[k] \notin columns
        THEN Raised("KeyError", "not in index")
        ELSE IF ~p.scaler.fitted
        THEN Raised("NotFittedError", "This StandardScaler instance is not fitted yet.")
        ELSE IF p.scaler.n_features_in # Len(names)
        THEN Raised("ValueError", "X has a different number of features than StandardScaler is expecting.")
        ELSE IF p.model = None
        THEN Raised("AttributeError", "'NoneType' object has no attribute 'predict_proba'")
        ELSE IF Get(p.model).n_features_in # Len(names)
        THEN Raised("ValueError", "X has a different number of features than the model is expecting.")
        ELSE LET risk_probability ==
                     [predict_proba |-> Get(p.model),
                      scaler |-> p.scaler,
                      columns |-> names,
                      row |-> X[1]]
             IN  Returned([risk_probability |-> risk_probability,
                           risk_label |-> [predict |-> Get(p.model),
                                           scaler |-> p.scaler,
                                           columns |-> names,
                                           row |-> X[1]],
                           risk_score |-> <<risk_probability, "*", 100>>])

\* predict_risk without its precondition
predict_risk_unguarded(p, transaction_data) ==
    predict_risk_body(p, transaction_data)

\* MLPredictor.predict_risk
predict_risk_outcome(p, transaction_data) ==
    IF p.model = None THEN Raised("ValueError", NotTrainedYet)
    ELSE predict_risk_body(p, transaction_data)

\* a variant that scales with fit_transform, so the scaler is fitted again on
\* the transactions it is given
predict_risk_refits(p, transaction_data) ==
    IF p.model = None THEN p
    ELSE [p EXCEPT !.scaler = [fitted |-> TRUE, fit_on |-> transaction_data,
                               n_features_in |-> Len(p.feature_names)]]

\* the predictor after predict_risk: the method assigns no attribute, and
\* transform, predict_proba and predict leave the fitted objects as they are
predict_risk_predictor(p, transaction_data) == p

\* AMLComplianceSystem.predict_compliance_risk
predict_compliance_risk_outcome(predictor, transaction_data) ==
    IF predictor = None \/ Get(predictor).model = None
    THEN Raised("ValueError", MLModelNotTrained)
    ELSE predict_risk_outcome(Get(predictor), transaction_data)

----------------------------------------------------------------------------
(* The system's ML operations: src/src/aml_system.py and MLPredictor *)

\* a labelled dataset with both classes, and one with a single class and
\* another vocabulary
TwoClassData ==
    <<Row(<<12, 0, 0>>, "ACC0001", "ACC0002", 9500, "USD", "USD", "US-NY", "US-NY", "Wire", 0),
      Row(<<23, 0, 0>>, "ACC0002", "ACC0001", 20000, "USD", "EUR", "US-NY", "UK-LDN", "ACH", 1)>>

SingleClassData ==
    <<Row(<<12, 0, 0>>, "ACC0001", "ACC0002", 9500, "EUR", "EUR", "UK-LDN", "UK-LDN", "ACH", 0)>>

MLDatasets == {TwoClassData, SingleClassData}

\* held-out results of a classifier on data with both classes: all right
\* (F1 = 1), one false alarm (F1 = 2/3), the positive missed (F1 = 0)
AllRight == Confusion(1, 0, 0, 1)

FalseAlarm == Confusion(1, 1, 0, 0)

Missed == Confusion(0, 0, 1, 1)

Results(rf, gb) == [n \in Supervised |-> IF n = "random_forest" THEN rf ELSE gb]

\* the results with those of the isolation forest's outlier labels (-1 read
\* as the positive class)
WithForest(results, forest) ==
    [n \in DOMAIN results \cup {"isolation_forest_classifier"} |->
        IF n = "isolation_forest_classifier" THEN forest ELSE results[n]]

\* the held-out results of the candidates that are explored. The classifiers:
\* a tie above zero, either one strictly ahead with both above zero, only the
\* second above zero, and both at zero. The isolation forest: behind both,
\* level with the best, ahead of both, and the only one above zero
TwoClassResults ==
    {WithForest(Results(AllRight, AllRight), Missed),
     WithForest(Results(AllRight, FalseAlarm), AllRight),
     WithForest(Results(FalseAlarm, AllRight), Missed),
     WithForest(Results(Missed, FalseAlarm), AllRight),
     WithForest(Results(Missed, Missed), AllRight)}

\* what fitting and evaluating the classifiers on d can give: None when
\* GradientBoostingClassifier.fit refuses single-class labels, otherwise the
\* held-out results; a classifier fitted on one class predicts that class
HeldOutOutcomes(d) ==
    IF \E i \in 1..Len(d) : d[i].Is_laundering = 1
    THEN {Some(h) : h \in TwoClassResults}
    ELSE {None, Some(Results(Confusion(0, 0, 0, 1), Confusion(0, 0, 0, 1)))}

\* a transaction whose categorical values all appear in TwoClassData, and the
\* values that appear in no dataset
SeenTransaction == TwoClassData[1]

UnseenValue ==
    [Payment_type |-> "Barter",
     Sender_bank_location |-> "HK-HKG",
     Receiver_bank_location |-> "HK-HKG",
     Payment_currency |-> "GBP",
     Received_currency |-> "GBP"]

UnseenPaymentType == [SeenTransaction EXCEPT !.Payment_type = UnseenValue.Payment_type]

\* the seen transaction given without its Payment_type
WithoutPaymentType ==
    [c \in DOMAIN SeenTransaction \ {"Payment_type"} |-> SeenTransaction[c]]

PredictRows ==
    {SeenTransaction, WithoutPaymentType}
    \cup {[SeenTransaction EXCEPT ![f] = UnseenValue[f]] : f \in CategoricalSet}

\* the frames handed to predict: a dict is a frame of one row; a longer frame
\* repeats the seen transaction around at most one other row
PredictInputs ==
    {<<r>> : r \in PredictRows}
    \cup {s \in SeqsUpTo({SeenTransaction, UnseenPaymentType}, MaxBatch) :
            /\ Len(s) > 1
            /\ Cardinality({i \in 1..Len(s) : s[i] # SeenTransaction}) = 1}

\* AMLComplianceSystem.load_data: the frame, and fresh modules over it
load_data ==
    \E d \in MLDatasets :
        /\ df' = d
        /\ profiles' = None
        /\ anomalies' = None
        /\ ml_predictor' = Some(MLPredictor)
        /\ last' = Call("load_data", <<>>, "returned", "", None)
        /\ model_since_load' = FALSE
        /\ UNCHANGED <<iso_forest, held_out, package_file, model_file>>

\* MLPredictor.train_compliance_model
train_compliance_model ==
    /\ ml_predictor # None
    /\ LET p == Get(ml_predictor)
           held == held_out[df]
       IN  IF held = None
           THEN /\ ml_predictor' = Some(_prepare_ml_features(p, df))
                /\ last' = Call("train_compliance_model", <<>>, "ValueError",
                                "y contains 1 class", None)
                /\ UNCHANGED model_since_load
           ELSE LET q == train_compliance_model_result(p, df, Get(held))
                IN  /\ ml_predictor' = Some(q)
                    /\ model_since_load' = (model_since_load \/ q.model # None)
                    /\ last' = Call("train_compliance_model", <<>>, "returned", "",
                                    Some(q.model))
    /\ df' = frame_after_prepare_ml_features(df)
    /\ UNCHANGED <<profiles, anomalies, iso_forest, held_out, package_file, model_file>>

NoModelToSave == "No model to save. Train a model first."

\* MLPredictor.save_complete_package: the write succeeds, or fails before or
\* after the file was opened for writing
save_complete_package ==
    /\ ml_predictor # None
    /\ LET p == Get(ml_predictor)
       IN  IF p.model = None
           THEN /\ last' = Call("save_complete_package", <<>>, "ValueError",
                                NoModelToSave, None)
                /\ UNCHANGED package_file
           ELSE \/ /\ package_file' = Pickled(ml_package(p))
                   /\ last' = Call("save_complete_package", <<>>, "returned", "",
                                   Some(TRUE))
                \/ /\ package_file' \in {package_file, Unreadable}
                   /\ last' = Call("save_complete_package", <<>>, "returned", "",
                                   Some(FALSE))
    /\ UNCHANGED <<df, profiles, anomalies, iso_forest, held_out, ml_predictor, model_file,
                   model_since_load>>

\* MLPredictor.load_complete_package
load_complete_package ==
    /\ ml_predictor # None
    /\ LET r == load_complete_package_result(Get(ml_predictor), package_file)
       IN  /\ ml_predictor' = Some(r.predictor)
           /\ last' = Call("load_complete_package", <<>>, "returned", "", Some(r.ok))
           /\ model_since_load' = (model_since_load \/ r.ok)
    /\ UNCHANGED <<df, profiles, anomalies, iso_forest, held_out, package_file, model_file>>

DataNotLoaded == "Data not loaded. Please run load_data() first."

\* a load_pretrained_model that reports success whatever the load returned
load_pretrained_model_always_true(predictor, file) ==
    IF predictor = None
    THEN [predictor |-> predictor, call |-> Raised("ValueError", DataNotLoaded)]
    ELSE [predictor |-> Some(load_complete_package_result(Get(predictor), file).predictor),
          call |-> Returned(TRUE)]

\* AMLComplianceSystem.load_pretrained_model: the predictor it leaves and how
\* the call ends
load_pretrained_model_result(predictor, file) ==
    IF predictor = None
    THEN [predictor |-> predictor, call |-> Raised("ValueError", DataNotLoaded)]
    ELSE LET r == load_complete_package_result(Get(predictor), file)
         IN  [predictor |-> Some(r.predictor), call |-> Returned(r.ok)]

\* AMLComplianceSystem.load_pretrained_model
load_pretrained_model ==
    /\ LET r == load_pretrained_model_result(ml_predictor, package_file)
       IN  /\ ml_predictor' = r.predictor
           /\ last' = Call("load_pretrained_model", <<>>, r.call.outcome,
                           r.call.message, r.call.value)
           /\ model_since_load' = (model_since_load \/ r.call.value = Some(TRUE))
    /\ UNCHANGED <<df, profiles, anomalies, iso_forest, held_out, package_file, model_file>>

\* MLPredictor.save_model: only the model is written
save_model ==
    /\ ml_predictor # None
    /\ LET p == Get(ml_predictor)
       IN  IF p.model = None
           THEN /\ last' = Call("save_model", <<>>, "ValueError", NoModelToSave, None)
                /\ UNCHANGED model_file
           ELSE \/ /\ model_file' = Pickled(Get(p.model))
                   /\ last' = Call("save_model", <<>>, "returned", "", Some(TRUE))
                \/ /\ model_file' \in {model_file, Unreadable}
                   /\ last' = Call("save_model", <<>>, "returned", "", Some(FALSE))
    /\ UNCHANGED <<df, profiles, anomalies, iso_forest, held_out, ml_predictor, package_file,
                   model_since_load>>

\* MLPredictor.load_model: only the model is replaced
load_model ==
    /\ ml_predictor # None
    /\ IF model_file = None \/ model_file = Unreadable
       THEN /\ last' = Call("load_model", <<>>, "returned", "", Some(FALSE))
            /\ UNCHANGED ml_predictor
       ELSE /\ ml_predictor' =
                   Some([Get(ml_predictor) EXCEPT !.model = Get(model_file)])
            /\ last' = Call("load_model", <<>>, "returned", "", Some(TRUE))
    /\ UNCHANGED <<df, profiles, anomalies, iso_forest, held_out, package_file, model_file,
                   model_since_load>>

\* MLPredictor.predict_risk
predict_risk ==
    /\ ml_predictor # None
    /\ \E transaction_data \in PredictInputs :
           LET r == predict_risk_outcome(Get(ml_predictor), transaction_data)
           IN  /\ last' = Call("predict_risk", transaction_data, r.outcome, r.message,
                               r.value)
               /\ ml_predictor' =
                      Some(predict_risk_predictor(Get(ml_predictor), transaction_data))
    /\ UNCHANGED <<df, profiles, anomalies, iso_forest, held_out, package_file, model_file,
                   model_since_load>>

\* AMLComplianceSystem.predict_compliance_risk
predict_compliance_risk ==
    /\ \E transaction_data \in PredictInputs :
           LET r == predict_compliance_risk_outcome(ml_predictor, transaction_data)
           IN  /\ last' = Call("predict_compliance_risk", transaction_data, r.outcome,
                               r.message, r.value)
               /\ ml_predictor' =
                      IF ml_predictor = None \/ Get(ml_predictor).model = None
                      THEN ml_predictor
                      ELSE Some(predict_risk_predictor(Get(ml_predictor),
                                                       transaction_data))
    /\ UNCHANGED <<df, profiles, anomalies, iso_forest, held_out, package_file, model_file,
                   model_since_load>>

InitML ==
    /\ df = <<>>
    /\ profiles = None
    /\ anomalies = None
    /\ iso_forest = <<>>
    /\ held_out \in {h \in [MLDatasets -> UNION {HeldOutOutcomes(d) : d \in MLDatasets}] :
                        \A d \in MLDatasets : h[d] \in HeldOutOutcomes(d)}
    /\ ml_predictor = None
    /\ package_file = None
    /\ model_file = None
    /\ last = NoCall
    /\ model_since_load = FALSE

NextML ==
    \/ load_data
    \/ train_compliance_model
    \/ save_complete_package
    \/ load_complete_package
    \/ load_pretrained_model
    \/ save_model
    \/ load_model
    \/ predict_risk
    \/ predict_compliance_risk

SpecML == InitML /\ [][NextML]_vars

----------------------------------------------------------------------------
(* The analysis pipeline: AMLComplianceSystem.run_complete_analysis *)

\* the frame as it was loaded: the columns of the dataset
Original(d) == [i \in DOMAIN d |-> [c \in DOMAIN BulkRow |-> d[i][c]]]

\* _create_detailed_analysis_plots writes an is_cross_border column into the
\* frame the modules share
WithCrossBorderColumn(d) ==
    [i \in DOMAIN d |->
        [c \in DOMAIN d[i] \cup {"is_cross_border"} |->
            IF c = "is_cross_border" THEN IsCrossBorder(d[i]) ELSE d[i][c]]]

\* how train_compliance_model ends on predictor p over frame d, and the
\* predictor it leaves
train_compliance_model_call(p, d, held) ==
    IF held = None
    THEN [predictor |-> _prepare_ml_features(p, d),
          call |-> Raised("ValueError", "y contains 1 class")]
    ELSE LET q == train_compliance_model_result(p, d, Get(held))
         IN  [predictor |-> q, call |-> Returned(q.model)]

\* what save_complete_package can do with a predictor that has a model: the
\* value it returns and the file it leaves
SaveOutcomes(p, file) ==
    {[ok |-> TRUE, file |-> Pickled(ml_package(p))]}
    \cup {[ok |-> FALSE, file |-> f] : f \in {file, Unreadable}}

\* the dict run_complete_analysis returns
AnalysisResults(customer_profiles, found, p) ==
    [customer_profiles |-> customer_profiles,
     anomalies |-> found,
     model |-> p.model,
     metrics |-> p.model_metrics]

\* AMLComplianceSystem.run_complete_analysis(save_model=...): profiling,
\* detection, training, the save when requested, dashboard and report
run_complete_analysis ==
    \E save_model_flag \in BOOLEAN :
        IF ml_predictor = None
        THEN /\ last' = Call("run_complete_analysis", save_model_flag, "ValueError",
                             DataNotLoaded, None)
             /\ UNCHANGED <<df, profiles, anomalies, iso_forest, held_out,
                            ml_predictor, package_file, model_file, model_since_load>>
        ELSE \E order \in Orderings(all_accounts(df)) :
             LET customer_profiles == _calculate_risk_scores(df, order)
                 found == _combine_anomaly_results(
                              _isolation_forest_detection(df, iso_forest),
                              _statistical_detection(df))
                 t == train_compliance_model_call(Get(ml_predictor), Original(df),
                                                  held_out[Original(df)])
             IN  /\ profiles' = Some(customer_profiles)
                 /\ anomalies' = Some(found)
                 /\ ml_predictor' = Some(t.predictor)
                 /\ model_since_load' = (model_since_load
                                          \/ (t.call.outcome = "returned"
                                              /\ t.predictor.model # None))
                 /\ UNCHANGED <<iso_forest, held_out, model_file>>
                 /\ IF t.call.outcome # "returned"
                    THEN /\ last' = Call("run_complete_analysis", save_model_flag,
                                         t.call.outcome, t.call.message, None)
                         /\ UNCHANGED <<df, package_file>>
                    ELSE IF save_model_flag /\ t.predictor.model = None
                    THEN /\ last' = Call("run_complete_analysis", save_model_flag,
                                         "ValueError", NoModelToSave, None)
                         /\ UNCHANGED <<df, package_file>>
                    ELSE /\ \E w \in SaveOutcomes(t.predictor, package_file) :
                                package_file' = IF save_model_flag THEN w.file
                                                ELSE package_file
                         /\ df' = WithCrossBorderColumn(df)
                         /\ last' = Call("run_complete_analysis", save_model_flag,
                                         "returned", "",
                                         Some(AnalysisResults(customer_profiles, found,
                                                              t.predictor)))

NoTrainedModelToSave == "No trained model to save."

\* AMLComplianceSystem.save_trained_model
save_trained_model ==
    /\ IF ml_predictor = None \/ Get(ml_predictor).model = None
       THEN /\ last' = Call("save_trained_model", <<>>, "ValueError",
                            NoTrainedModelToSave, None)
            /\ UNCHANGED package_file
       ELSE \E w \in SaveOutcomes(Get(ml_predictor), package_file) :
                /\ package_file' = w.file
                /\ last' = Call("save_trained_model", <<>>, "returned", "", Some(w.ok))
    /\ UNCHANGED <<df, profiles, anomalies, iso_forest, held_out, ml_predictor, model_file,
                   model_since_load>>

\* the feature rows of the datasets, on which the isolation forest answers
SystemFeatureRows == UNION {FeatureRows(d) : d \in MLDatasets}

\* the answers of the isolation forest explored with the pipeline: an outlier
\* and an inlier
SystemIsoOutcomes == {o \in IsoOutcomes : o.label = -1 \/ o.score.num > 0}

InitSystem ==
    /\ df = <<>>
    /\ profiles = None
    /\ anomalies = None
    /\ iso_forest \in [SystemFeatureRows -> SystemIsoOutcomes]
    /\ held_out \in {h \in [MLDatasets -> UNION {HeldOutOutcomes(d) : d \in MLDatasets}] :
                        \A d \in MLDatasets : h[d] \in HeldOutOutcomes(d)}
    /\ ml_predictor = None
    /\ package_file = None
    /\ model_file = None
    /\ last = NoCall
    /\ model_since_load = FALSE

NextSystem ==
    \/ load_data
    \/ run_complete_analysis
    \/ save_trained_model
    \/ load_pretrained_model

SpecSystem == InitSystem /\ [][NextSystem]_vars


----------------------------------------------------------------------------
(* Claims about training, persistence and prediction *)

\* the predictor the system holds
Predictor == Get(ml_predictor)

\* the last call was op and it returned
ReturnedFrom(op) == last.op = op /\ last.outcome = "returned"

\* the F1 stored for a supervised candidate
StoredF1(n) == Predictor.model_metrics[n].f1_score

\* the first candidate in registration order whose stored F1 no other
\* supervised candidate exceeds
FirstWithHighestF1 ==
    LET best(k) == /\ Candidates[k] \in Supervised
                   /\ \A n \in Supervised : RatLe(StoredF1(n), StoredF1(Candidates[k]))
    IN  Candidates[CHOOSE k \in DOMAIN Candidates :
                       best(k) /\ \A j \in 1..(k - 1) : ~best(j)]

\* C6: after train_compliance_model has evaluated the candidates, the stored
\* model is the supervised candidate with the highest held-out F1, and among
\* candidates sharing the highest F1 the first in registration order
C6_SelectsHighestF1 ==
    ReturnedFrom("train_compliance_model") =>
        /\ Predictor.model # None
        /\ Get(Predictor.model).name = FirstWithHighestF1

\* every supervised candidate's held-out precision, recall and F1 are 0
AllMetricsZero ==
    \A n \in Supervised :
        /\ n \in DOMAIN Predictor.model_metrics
        /\ RatEq(Predictor.model_metrics[n].precision, Rat(0, 1))
        /\ RatEq(Predictor.model_metrics[n].recall, Rat(0, 1))
        /\ RatEq(Predictor.model_metrics[n].f1_score, Rat(0, 1))

\* C7: when every supervised candidate's precision, recall and F1 on the
\* held-out split are 0, train_compliance_model returns without raising and
\* the predictor's model is the first candidate, not None
C7_AllZeroStillSelects ==
    (/\ last.op = "train_compliance_model"
     /\ \/ \A i \in 1..Len(df) : df[i].Is_laundering = 0
        \/ last.outcome = "returned" /\ AllMetricsZero)
    => /\ last.outcome = "returned"
       /\ Predictor.model # None
       /\ Get(Predictor.model).name = Candidates[1]

\* C8: predict on a predictor without a model raises ValueError with the
\* not-trained message, from MLPredictor.predict_risk and from
\* AMLComplianceSystem.predict_compliance_risk, also before any data is loaded
C8_PredictBeforeModel ==
    /\ (last.op = "predict_risk" /\ Predictor.model = None)
       => last.outcome = "ValueError" /\ last.message = NotTrainedYet
    /\ (/\ last.op = "predict_compliance_risk"
        /\ (ml_predictor = None \/ Predictor.model = None))
       => last.outcome = "ValueError" /\ last.message = MLModelNotTrained

C8_Witness ==
    /\ last.op = "predict_risk"
    /\ Predictor = MLPredictor
    /\ last.outcome = "ValueError"
    /\ last.message = NotTrainedYet

\* the five components a package carries, as a predictor holds them
PackagedPredictor ==
    LET pkg == Get(Get(package_file))
    IN  [model |-> pkg.model,
         scaler |-> pkg.scaler,
         label_encoders |-> pkg.label_encoders,
         feature_names |-> pkg.feature_names,
         model_metrics |-> pkg.model_metrics]

\* C9: a successful save_complete_package writes the predictor's model,
\* scaler, label encoders, feature names and metrics, and a successful
\* load_complete_package leaves the predictor, the same one or a fresh one,
\* with exactly the written five, so that predict_risk gives on every
\* transaction what the saved predictor gives
C9_PackageRoundTrip ==
    /\ (last.op = "save_complete_package" /\ last.value = Some(TRUE))
       => /\ package_file \notin {None, Unreadable}
          /\ PackagedPredictor = Predictor
    /\ (last.op = "load_complete_package" /\ last.value = Some(TRUE))
       => /\ package_file \notin {None, Unreadable}
          /\ Predictor = PackagedPredictor
          /\ \A x \in PredictInputs :
                 predict_risk_outcome(Predictor, x)
                     = predict_risk_outcome(PackagedPredictor, x)

\* a package trained on another dataset is loaded into a fresh predictor,
\* which then scores
C9_Witness ==
    /\ last.op = "load_complete_package"
    /\ last.value = Some(TRUE)
    /\ Predictor.model # None
    /\ Predictor.scaler.fitted
    /\ Predictor.scaler.fit_on # df
    /\ Get(Predictor.model).fit_on # df
    /\ predict_risk_outcome(Predictor, <<SeenTransaction>>).outcome = "returned"

\* row i of the frame has, in field f, a value the predictor's encoders never
\* saw in training
Unseen(p, transaction_data, i, f) ==
    /\ f \in DOMAIN transaction_data[i]
    /\ \/ f \notin DOMAIN p.label_encoders
       \/ transaction_data[i][f] \notin p.label_encoders[f]

\* C10: with a model available, predict_risk on a transaction with an unseen
\* value in a categorical field returns a result with risk_probability,
\* risk_label and risk_score, the unseen value encoded as 0
C10_UnseenCategoryReturns ==
    (/\ last.op = "predict_risk"
     /\ Predictor.model # None
     /\ \E f \in CategoricalSet : Unseen(Predictor, last.arg, 1, f))
    => /\ last.outcome = "returned"
       /\ DOMAIN Get(last.value) = {"risk_probability", "risk_label", "risk_score"}
       /\ \A f \in CategoricalSet :
              Unseen(Predictor, last.arg, 1, f)
              => /\ f \in DOMAIN Predictor.label_encoders
                 /\ EncodedColumn(Predictor.label_encoders, last.arg, f)[1] = 0

\* the predictor holds what one training run or one package load gave it
WholePackage(p) ==
    /\ p.model # None
    /\ p.scaler.fitted
    /\ DOMAIN p.label_encoders = CategoricalSet
    /\ p.scaler.n_features_in = Len(p.feature_names)
    /\ Get(p.model).n_features_in = Len(p.feature_names)

\* on a predictor holding a whole package, for a transaction that carries the
\* five categorical fields, the unseen value is encoded as 0 and the result is
\* returned
UnseenCategoryOnWholePackage ==
    (/\ last.op = "predict_risk"
     /\ WholePackage(Predictor)
     /\ CategoricalSet \subseteq DOMAIN last.arg[1]
     /\ \E f \in CategoricalSet : Unseen(Predictor, last.arg, 1, f))
    => /\ last.outcome = "returned"
       /\ DOMAIN Get(last.value) = {"risk_probability", "risk_label", "risk_score"}
       /\ \A f \in CategoricalSet :
              Unseen(Predictor, last.arg, 1, f)
              => EncodedColumn(Predictor.label_encoders, last.arg, f)[1] = 0

\* the feature names _prepare_ml_features captures from a frame with the
\* columns of the datasets
TrainedFeatureNames == _prepare_ml_features(MLPredictor, TwoClassData).feature_names

\* C11: when predict_risk scores a transaction, the columns handed to the
\* scaler and the model are the predictor's feature_names, in the length and
\* order captured at training time, one value per name; when a named column
\* is absent for the transaction the call raises instead of scoring
C11_ScoredColumnsAreFeatureNames ==
    last.op = "predict_risk" =>
        /\ last.outcome = "returned" =>
               LET term == Get(last.value).risk_probability
               IN  /\ term.columns = Predictor.feature_names
                   /\ term.columns = TrainedFeatureNames
                   /\ Len(term.row) = Len(term.columns)
                   /\ Len(term.columns) = Get(Predictor.model).n_features_in
                   /\ Len(term.columns) = Predictor.scaler.n_features_in
        /\ (/\ Predictor.model # None
            /\ \E k \in DOMAIN Predictor.feature_names :
                   Predictor.feature_names[k] \notin
                       ColumnsAfterEncoding(DOMAIN last.arg[1], Predictor.label_encoders))
           => last.outcome = "KeyError"

\* a transaction is scored on the fifteen trained columns
C11_Witness ==
    /\ last.op = "predict_risk"
    /\ last.outcome = "returned"
    /\ Get(last.value).risk_probability.columns = TrainedFeatureNames
    /\ Len(TrainedFeatureNames) = Cardinality(EngineeredColumns) + Len(categorical_features) + 1

\* a transaction without Payment_type is refused by a trained predictor
C11_AbsentColumnRefused ==
    /\ last.op = "predict_risk"
    /\ last.arg = <<WithoutPaymentType>>
    /\ Predictor.model # None
    /\ Len(Predictor.feature_names) > 0
    /\ last.outcome = "KeyError"

\* C12: with no file at the path, load_complete_package and load_model
\* return False without raising, and load_pretrained_model on a system whose
\* data is loaded returns that False to its caller
C12_MissingArtifactReturnsFalse ==
    /\ (last.op = "load_complete_package" /\ package_file = None)
       => last.outcome = "returned" /\ last.value = Some(FALSE)
    /\ (last.op = "load_model" /\ model_file = None)
       => last.outcome = "returned" /\ last.value = Some(FALSE)
    /\ (last.op = "load_pretrained_model" /\ ml_predictor # None /\ package_file = None)
       => last.outcome = "returned" /\ last.value = Some(FALSE)

C12_Witness ==
    /\ last.op = "load_pretrained_model"
    /\ ml_predictor # None
    /\ package_file = None
    /\ last.outcome = "returned"
    /\ last.value = Some(FALSE)

\* what load_complete_package returns to its caller when no file exists
MissingArtifactReturn == load_complete_package_result(MLPredictor, None).ok

\* C13: for an unreadable artifact load_complete_package gives its caller an
\* outcome that differs from the one it gives for a missing artifact
C13_CorruptedDistinctFromMissing ==
    (last.op = "load_complete_package" /\ package_file = Unreadable)
    => \/ last.outcome # "returned"
       \/ last.value # Some(MissingArtifactReturn)

\* the package file holds the package of the predictor as it is now
ArtifactWritten ==
    /\ package_file \notin {None, Unreadable}
    /\ PackagedPredictor = Predictor

\* C14: a failed write is surfaced: a save that reports success has written
\* the artifact, and run_complete_analysis(save_model=True) returns as a
\* successful run only when the artifact was written
C14_FailedWriteSurfaced ==
    /\ (/\ last.op \in {"save_complete_package", "save_trained_model"}
        /\ last.value = Some(TRUE))
       => ArtifactWritten
    /\ (/\ last.op = "run_complete_analysis"
        /\ last.arg = TRUE
        /\ last.outcome = "returned")
       => ArtifactWritten

\* a save that reports success has written the artifact
SaveReportsWrite ==
    (/\ last.op \in {"save_complete_package", "save_trained_model"}
     /\ last.value = Some(TRUE))
    => ArtifactWritten

----------------------------------------------------------------------------
(* Claims on the profiler: coverage, determinism, structuring              *)

Appears(a) ==
    \E i \in DOMAIN df : df[i].Sender_account = a \/ df[i].Receiver_account = a

ReceiveOnly(a) ==
    /\ \E i \in DOMAIN df : df[i].Receiver_account = a
    /\ \A i \in DOMAIN df : df[i].Sender_account # a

\* C15: analyze_customers gives exactly one profile to every account that
\* appears as sender or receiver, receive-only accounts included, and none to
\* an account that appears in no row
C15_OneProfilePerAccount ==
    profiles # None =>
        /\ \A a \in Accounts :
              Appears(a) <=> \E i \in DOMAIN Get(profiles) : Get(profiles)[i].account = a
        /\ \A i, j \in DOMAIN Get(profiles) :
              Get(profiles)[i].account = Get(profiles)[j].account => i = j
        /\ \A i \in DOMAIN Get(profiles) : Get(profiles)[i].account \in Accounts

\* profiles were produced for a dataset with a receive-only account
C15_Witness ==
    /\ profiles # None
    /\ \E a \in Accounts :
          /\ ReceiveOnly(a)
          /\ \E i \in DOMAIN Get(profiles) : Get(profiles)[i].account = a

\* profiles were produced for a dataset in which some account has no row
C15_AbsentAccount ==
    /\ profiles # None
    /\ \E a \in Accounts : ~Appears(a)

\* the risk_score and risk_classification that the profiles frame ps holds for
\* each account
Scores(ps) ==
    {<<ps[i].account, ps[i].risk_score, ps[i].risk_classification>> : i \in DOMAIN ps}

\* C16: a run of the profiler over the dataset of the run before it gives
\* every account the risk_score and risk_classification of that run, whatever
\* the two iteration orders are and whatever happened before
C16_Deterministic ==
    [][(/\ profiles # None
        /\ profiles' # None
        /\ Original(df') = Original(df))
       => Scores(Get(profiles')) = Scores(Get(profiles))]_vars

\* the profiler has visited two accounts in the order opposite to the sorted
\* one, and the two were given different scores
C16_Witness ==
    /\ profiles # None
    /\ Len(Get(profiles)) = 2
    /\ Get(profiles)[1].account = "ACC0002"
    /\ Get(profiles)[2].account = "ACC0001"
    /\ ~RatEq(Get(profiles)[1].risk_score, Get(profiles)[2].risk_score)

----------------------------------------------------------------------------
(* Claims on the statistical detector                                      *)

SecondOfDay(t) == t.Time[1] * 3600 + t.Time[2] * 60 + t.Time[3]

\* the time of day is before 05:00 or after 22:00
OutsideHours(t) == SecondOfDay(t) < 5 * 3600 \/ SecondOfDay(t) > 22 * 3600

\* the amount's z-score against the dataset's own mean and standard deviation
\* exceeds ZSCORE_THRESHOLD
ZScoreExceeds(d, i) ==
    /\ amount_zscore(d, i) # None
    /\ RatLt(RatOfInt(3 * 3), Get(amount_zscore(d, i)))

\* C17: statistical_anomaly = 1 exactly when the amount's z-score exceeds 3
\* or the time of day is before 05:00 or after 22:00; 02:30 is always flagged
\* and 05:00:00 and 22:00:00 are not flagged by the time rule
C17_StatisticalAnomalyRule ==
    anomalies # None =>
        \A i \in DOMAIN Get(anomalies) :
            LET r == Get(anomalies)[i]
            IN  /\ r.statistical_anomaly = 1
                      <=> (ZScoreExceeds(Original(df), i) \/ OutsideHours(r))
                /\ r.Time = <<2, 30, 0>> => r.statistical_anomaly = 1
                /\ r.Time \in {<<5, 0, 0>>, <<22, 0, 0>>}
                      => (r.statistical_anomaly = 1 <=> ZScoreExceeds(Original(df), i))

\* what the detector computes: the rule on whole minutes, 22:00:30 being
\* minute 1320 and so not late
StatisticalAnomalyOnMinutes ==
    anomalies # None =>
        \A i \in DOMAIN Get(anomalies) :
            LET r == Get(anomalies)[i]
                minute == SecondOfDay(r) \div 60
            IN  /\ r.statistical_anomaly = 1
                      <=> (ZScoreExceeds(Original(df), i) \/ minute < 300 \/ minute > 1320)
                /\ r.Time = <<2, 30, 0>> => r.statistical_anomaly = 1

----------------------------------------------------------------------------
(* Claims on the unsupervised candidate and on the component files         *)

IsForest(model) == model # None /\ Get(model).name = "isolation_forest_classifier"

\* the isolation forest is among the candidates fitted for the loaded frame
ForestTrained ==
    \E k \in DOMAIN Candidates :
        _train_multiple_models(df, Len(Predictor.feature_names))[k].name
            = "isolation_forest_classifier"

\* C18: the isolation forest is trained with the classifiers, and whatever
\* the held-out results are it is never the model train_compliance_model
\* returns or stores, nor the model of a written package or model file
C18_ForestNeverStored ==
    /\ ReturnedFrom("train_compliance_model")
          => ForestTrained /\ ~IsForest(Get(last.value))
    /\ ml_predictor # None => ~IsForest(Predictor.model)
    /\ package_file \notin {None, Unreadable} => ~IsForest(Get(Get(package_file)).model)
    /\ model_file \notin {None, Unreadable} => ~IsForest(Get(model_file))

\* training returned on held-out results where the isolation forest does
\* strictly better than both classifiers, and a classifier was stored
C18_Witness ==
    /\ ReturnedFrom("train_compliance_model")
    /\ held_out[df] # None
    /\ "isolation_forest_classifier" \in DOMAIN Get(held_out[df])
    /\ \A n \in Supervised :
          /\ RatLt(f1_score(Get(held_out[df])[n]),
                   f1_score(Get(held_out[df])["isolation_forest_classifier"]))
          /\ RatLt(accuracy_score(Get(held_out[df])[n]),
                   accuracy_score(Get(held_out[df])["isolation_forest_classifier"]))
    /\ Predictor.model # None
    /\ Get(Predictor.model).name \in Supervised

----------------------------------------------------------------------------
(* Claims on structuring (checked under SpecStructuring)                   *)

\* account a is the sender or the receiver of a row whose amount is in
\* [9000, 10000)
HasAmountInBand(a) ==
    \E i \in DOMAIN df :
        /\ df[i].Sender_account = a \/ df[i].Receiver_account = a
        /\ 9000 <= df[i].Amount
        /\ df[i].Amount < 10000

\* the two profiles have the same suspicious ratio, mean-amount tier,
\* cross-border ratio and high-risk-location count
SameOtherInputs(p, q) ==
    /\ p.suspicious_transactions * q.total_transactions
         = q.suspicious_transactions * p.total_transactions
    /\ AmountTier(p) = AmountTier(q)
    /\ p.cross_border_count * q.total_transactions
         = q.cross_border_count * p.total_transactions
    /\ p.high_risk_countries = q.high_risk_countries

\* C19: an account with a transaction of amount in [9000, 10000) has
\* structuring_indicators >= 1 and an account with none has 0 (9000 counts,
\* 10000 does not); a profile with structuring_indicators >= 1 has a strictly
\* greater risk_score than a profile with structuring_indicators = 0 and the
\* same other score inputs
C19_StructuringRaisesScore ==
    \A p \in Produced :
        /\ HasAmountInBand(p.account) <=> p.structuring_indicators >= 1
        /\ p.structuring_indicators >= 1 =>
              /\ RatLt(RiskScore([p EXCEPT !.structuring_indicators = 0]), p.risk_score)
              /\ \A q \in Produced :
                    (q.structuring_indicators = 0 /\ SameOtherInputs(p, q))
                    => RatLt(q.risk_score, p.risk_score)

\* the amounts of the dataset are 9000 and 10000, and two of its accounts
\* have the same other score inputs, one with and one without an indicator
C19_Witness ==
    /\ {df[i].Amount : i \in DOMAIN df} = {9000, 10000}
    /\ \E p, q \in Produced :
          /\ p.structuring_indicators >= 1
          /\ q.structuring_indicators = 0
          /\ SameOtherInputs(p, q)

\* a profile with an indicator whose score is at the cap of 100
C19_AtCap ==
    \E p \in Produced :
        /\ p.structuring_indicators >= 1
        /\ RatEq(p.risk_score, RatOfInt(100))

\* the preprocessing state of the training run that fitted the model: the
\* scaler, encoders and feature names that run left in its predictor
TrainedWith(model) == _prepare_ml_features(MLPredictor, model.fit_on)

\* C20: after a load of the component files the predictor holds the scaler,
\* the encoders and the feature names saved with the model, and predict_risk
\* on a transaction like the training rows returns a result
C20_ComponentRoundTrip ==
    /\ (last.op = "load_model" /\ last.value = Some(TRUE)) =>
          LET saved == TrainedWith(Get(Predictor.model))
          IN  /\ Predictor.scaler = saved.scaler
              /\ Predictor.label_encoders = saved.label_encoders
              /\ Predictor.feature_names = saved.feature_names
    /\ (/\ last.op = "predict_risk"
        /\ Predictor.model # None
        /\ \A i \in DOMAIN last.arg : last.arg[i] = SeenTransaction)
       => last.outcome = "returned"

\* what does hold: a predictor whose model came with its package or its own
\* training run scores a transaction like the training rows
PredictOnWholePackage ==
    (/\ last.op = "predict_risk"
     /\ Predictor.model # None
     /\ WholePackage(Predictor)
     /\ \A i \in DOMAIN last.arg : last.arg[i] = SeenTransaction)
    => last.outcome = "returned"

----------------------------------------------------------------------------
(* The four core operations on components built over one loaded frame      *)

InitCore ==
    /\ df \in MLDatasets
    /\ profiles = None
    /\ anomalies = None
    /\ iso_forest \in [FeatureRows(df) -> SystemIsoOutcomes]
    /\ held_out \in {h \in [MLDatasets -> UNION {HeldOutOutcomes(d) : d \in MLDatasets}] :
                        \A d \in MLDatasets : h[d] \in HeldOutOutcomes(d)}
    /\ ml_predictor = Some(MLPredictor)
    /\ package_file = None
    /\ model_file = None
    /\ last = NoCall
    /\ model_since_load = FALSE

NextCore ==
    \/ analyze_customers
    \/ detect_anomalies
    \/ train_compliance_model
    \/ predict_risk

SpecCore == InitCore /\ [][NextCore]_vars

----------------------------------------------------------------------------
(* Loading a package file that this or another program has left at the     *)
(* package path                                                            *)

\* a pickled dict without the entries of keys
WithoutEntries(pkg, keys) == [k \in DOMAIN pkg \ keys |-> pkg[k]]

\* the entries an artifact may lack
LackedEntries == {{}, {"feature_names"}, {"scaler"}}

\* the files that may be at the package path: none, unreadable bytes, the
\* package of a training run on d, and that package without some entry
Artifacts(d, held) ==
    {None, Unreadable}
    \cup IF held = None THEN {}
         ELSE LET trained == train_compliance_model_result(MLPredictor, d, Get(held))
              IN  IF trained.model = None THEN {}
                  ELSE {Pickled(WithoutEntries(ml_package(trained), keys)) :
                           keys \in LackedEntries}

InitPackage ==
    /\ df \in MLDatasets
    /\ profiles = None
    /\ anomalies = None
    /\ iso_forest = <<>>
    /\ held_out \in {h \in [MLDatasets -> UNION {HeldOutOutcomes(d) : d \in MLDatasets}] :
                        \A d \in MLDatasets : h[d] \in HeldOutOutcomes(d)}
    /\ ml_predictor = Some(MLPredictor)
    /\ package_file \in Artifacts(TwoClassData, held_out[TwoClassData])
    /\ model_file = None
    /\ last = NoCall
    /\ model_since_load = FALSE

NextPackage ==
    \/ train_compliance_model
    \/ load_complete_package

SpecPackage == InitPackage /\ [][NextPackage]_vars

----------------------------------------------------------------------------
(* train_compliance_model step by step: while the call runs, last holds     *)
(* outcome "running", the stage it has completed and that stage's local    *)

\* a call of train_compliance_model is in progress
Running == last.outcome = "running"

InStage(stage) ==
    last.op = "train_compliance_model" /\ Running /\ last.message = stage

\* X, y = self._prepare_ml_features(): encoders, feature names and scaler are
\* fitted into the predictor
featurize ==
    /\ ~Running
    /\ ml_predictor # None
    /\ ml_predictor' = Some(_prepare_ml_features(Get(ml_predictor), df))
    /\ last' = Call("train_compliance_model", <<>>, "running", "FEATURIZED", None)
    /\ df' = frame_after_prepare_ml_features(df)
    /\ UNCHANGED <<profiles, anomalies, iso_forest, held_out, package_file, model_file,
                   model_since_load>>

\* the split and models = self._train_multiple_models(X_train, y_train); a
\* fit that refuses the labels ends the call
train_multiple_models ==
    /\ InStage("FEATURIZED")
    /\ IF held_out[df] = None
       THEN last' = Call("train_compliance_model", <<>>, "ValueError",
                         "y contains 1 class", None)
       ELSE last' = Call("train_compliance_model", <<>>, "running", "MULTI_TRAINED",
                         Some(_train_multiple_models(df, Len(Predictor.feature_names))))
    /\ UNCHANGED <<df, profiles, anomalies, iso_forest, held_out, ml_predictor,
                   package_file, model_file,
                   model_since_load>>

\* best_model = self._evaluate_models(models, X_test, y_test): the metrics
\* go into the predictor, the best model is a local
evaluate_models ==
    /\ InStage("MULTI_TRAINED")
    /\ LET st == _evaluate_models(Predictor, Get(last.value), Get(held_out[df]))
       IN  /\ ml_predictor' = Some([Predictor EXCEPT !.model_metrics = st.metrics])
           /\ last' = Call("train_compliance_model", <<>>, "running", "EVALUATED",
                           Some(st.best_model))
    /\ UNCHANGED <<df, profiles, anomalies, iso_forest, held_out, package_file, model_file,
                   model_since_load>>

\* a variant that stores the first trained model as soon as the models are
\* trained, before any evaluation
select_unevaluated ==
    /\ InStage("MULTI_TRAINED")
    /\ ml_predictor' = Some([Predictor EXCEPT !.model = Some(Get(last.value)[1])])
    /\ last' = Call("train_compliance_model", <<>>, "returned", "",
                    Some(Some(Get(last.value)[1])))
    /\ UNCHANGED <<df, profiles, anomalies, iso_forest, held_out, package_file, model_file>>
    /\ model_since_load' = TRUE

\* self.model = best_model; return self.model
select_best_model ==
    /\ InStage("EVALUATED")
    /\ ml_predictor' = Some([Predictor EXCEPT !.model = Get(last.value)])
    /\ last' = Call("train_compliance_model", <<>>, "returned", "", last.value)
    /\ UNCHANGED <<df, profiles, anomalies, iso_forest, held_out, package_file, model_file>>
    /\ model_since_load' = (model_since_load \/ Get(last.value) # None)

\* the calls a caller makes between calls of train_compliance_model
BetweenCalls ==
    /\ ~Running
    /\ load_data \/ save_complete_package \/ save_model

InitTraining == InitML

NextTraining ==
    \/ featurize
    \/ train_multiple_models
    \/ evaluate_models
    \/ select_best_model
    \/ BetweenCalls

SpecTraining == InitTraining /\ [][NextTraining]_vars

----------------------------------------------------------------------------
(* Claims on the pipeline and on the order of training and persisting      *)

\* the package a readable package file holds
PackageIn(file) == Get(Get(file))

\* C21: a run of run_complete_analysis that finds a saved package loads it
\* instead of training again: the run returns and leaves the predictor with
\* the model, scaler, encoders and feature names of that package
C21_ReusesPersistedModel ==
    [][(/\ last'.op = "run_complete_analysis"
        /\ ml_predictor # None
        /\ package_file \notin {None, Unreadable})
       => /\ last'.outcome = "returned"
          /\ Get(ml_predictor').model = PackageIn(package_file).model
          /\ Get(ml_predictor').scaler = PackageIn(package_file).scaler
          /\ Get(ml_predictor').label_encoders = PackageIn(package_file).label_encoders
          /\ Get(ml_predictor').feature_names = PackageIn(package_file).feature_names]_vars

\* what the pipeline does: every run trains on the loaded frame, so the
\* model a returning run leaves was fitted on that frame
RunAlwaysTrains ==
    (/\ ReturnedFrom("run_complete_analysis")
     /\ Predictor.model # None)
    => Get(Predictor.model).fit_on = Original(df)

\* the stage of train_compliance_model that the call record l stands for
StageOf(l) ==
    IF l.op # "train_compliance_model" THEN "IDLE"
    ELSE IF l.outcome = "running" THEN l.message
    ELSE IF l.outcome = "returned" THEN "SELECTED"
    ELSE "RAISED"

Saves == {"save_complete_package", "save_model"}

\* C22: a call of train_compliance_model featurizes, trains the candidates
\* on the featurized columns, evaluates them and selects the evaluation's
\* best, each stage once and straight after the one before it; a save is
\* never made inside a call, and a save made while the predictor has no model
\* raises ValueError and leaves both files as they were
C22_StagesInOrder ==
    [][/\ StageOf(last') = "FEATURIZED"
            => /\ StageOf(last) \in {"IDLE", "SELECTED", "RAISED"}
               /\ Get(ml_predictor').scaler.fitted
               /\ Get(ml_predictor').model = Predictor.model
       /\ StageOf(last') = "MULTI_TRAINED"
            => /\ StageOf(last) = "FEATURIZED"
               /\ \A k \in DOMAIN Get(last'.value) :
                     /\ Get(last'.value)[k].name = Candidates[k]
                     /\ Get(last'.value)[k].n_features_in = Len(Predictor.feature_names)
               /\ ml_predictor' = ml_predictor
       /\ StageOf(last') = "EVALUATED"
            => /\ StageOf(last) = "MULTI_TRAINED"
               /\ Supervised \subseteq DOMAIN Get(ml_predictor').model_metrics
               /\ Get(ml_predictor').model = Predictor.model
       /\ (StageOf(last') = "SELECTED" /\ last' # last)
            => /\ StageOf(last) = "EVALUATED"
               /\ Get(ml_predictor').model = Get(last.value)
               /\ last'.value = Some(Get(ml_predictor').model)
       /\ (StageOf(last') = "RAISED" /\ last' # last)
            => StageOf(last) = "FEATURIZED"
       /\ (last'.op \in Saves /\ last' # last)
            => /\ ~Running
               /\ Predictor.model = None
                    => /\ last'.outcome = "ValueError"
                       /\ package_file' = package_file
                       /\ model_file' = model_file
               /\ last'.outcome = "ValueError" => Predictor.model = None]_vars

\* a save was refused for want of a model after a training call had
\* featurized and evaluated, and nothing is on disk
C22_Witness ==
    /\ last.op \in Saves
    /\ last.outcome = "ValueError"
    /\ Predictor.scaler.fitted
    /\ Supervised \subseteq DOMAIN Predictor.model_metrics
    /\ package_file = None
    /\ model_file = None

\* a call of train_compliance_model has gone through all four stages and
\* stored a model
C22_Selected ==
    /\ StageOf(last) = "SELECTED"
    /\ Predictor.model # None
    /\ Predictor.model = train_compliance_model_result(MLPredictor, df,
                                                       Get(held_out[df])).model

----------------------------------------------------------------------------
(* Claims on degenerate data and on frames                                 *)

\* C23: on a dataset with no transactions analyze_customers completes
\* without raising and returns zero profiles
C23_EmptyDatasetNoCrash ==
    (last.op = "analyze_customers" /\ df = <<>>)
    => /\ last.outcome = "returned"
       /\ last.value = Some(<<>>)
       /\ profiles = Some(<<>>)

\* on a dataset with at least one transaction analyze_customers returns the
\* profiles it stored
NonEmptyDatasetReturns ==
    (last.op = "analyze_customers" /\ df # <<>>)
    => /\ last.outcome = "returned"
       /\ last.value = profiles
       /\ Get(profiles) # <<>>

Predictions == {"predict_risk", "predict_compliance_risk"}

\* C24: a prediction, returning or raising, leaves the predictor's model,
\* scaler, label_encoders, feature_names and model_metrics as they were, and
\* the risk_score it returns is its risk_probability * 100
C24_PredictLeavesPredictor ==
    [][last'.op \in Predictions
       => /\ ml_predictor' = ml_predictor
          /\ last'.outcome = "returned"
               => Get(last'.value).risk_score
                    = <<Get(last'.value).risk_probability, "*", 100>>]_vars

\* predict_risk has returned a result on a trained predictor
C24_Witness ==
    /\ ReturnedFrom("predict_risk")
    /\ Predictor.model # None
    /\ Predictor.scaler.fitted
    /\ Get(last.value).risk_probability.scaler = Predictor.scaler

\* predict_risk has raised below its precondition on a trained predictor
C24_Raised ==
    /\ last.op = "predict_risk"
    /\ last.outcome = "KeyError"
    /\ Predictor.model # None
    /\ Predictor.scaler.fitted

\* the columns of a loaded frame
LoadedColumns == DOMAIN BulkRow

\* C25: analyze_customers, detect_anomalies, train_compliance_model and
\* predict_risk leave the frame the components share as it was, rows, columns
\* and values, and the transactions passed to predict_risk are after the call
\* what was passed, with no engineered column
C25_InputsNotMutated ==
    [][/\ df' = df
       /\ \A i \in DOMAIN df' : DOMAIN df'[i] = LoadedColumns
       /\ last'.op = "predict_risk"
            => /\ last'.arg \in PredictInputs
               /\ \A i \in DOMAIN last'.arg :
                     DOMAIN last'.arg[i] \cap EngineeredColumns = {}]_vars

\* all four operations have run on the frame: profiles and anomalies are
\* stored, the predictor is trained and predict_risk has returned
C25_Witness ==
    /\ profiles # None
    /\ anomalies # None
    /\ Predictor.model # None
    /\ ReturnedFrom("predict_risk")

----------------------------------------------------------------------------
(* Claims on the activity set of an account                                *)

\* the rows that involve account a, each once
ActivitySet(a) ==
    {i \in DOMAIN df : df[i].Sender_account = a \/ df[i].Receiver_account = a}

CountedOverActivitySet(p) ==
    LET rows == ActivitySet(p.account)
    IN  /\ p.total_transactions = Cardinality(rows)
        /\ p.suspicious_transactions
             = Cardinality({i \in rows : df[i].Is_laundering = 1})
        /\ p.cross_border_count = Cardinality({i \in rows : IsCrossBorder(df[i])})
        /\ p.structuring_indicators
             = Cardinality({i \in rows : df[i].Amount >= 9000 /\ df[i].Amount < 10000})

\* C26: total_transactions counts every transaction that involves the
\* account exactly once, a transaction from the account to itself included,
\* and the suspicious, cross-border and structuring counts are taken over
\* that same set
C26_ActivitySetIsUnion ==
    \A p \in Produced : CountedOverActivitySet(p)

\* the counts are those of the activity set for every account that is not
\* both sender and receiver of one transaction
UnionWithoutSelfTransfer ==
    \A p \in Produced :
        (\A i \in DOMAIN df :
            ~(df[i].Sender_account = p.account /\ df[i].Receiver_account = p.account))
        => CountedOverActivitySet(p)

----------------------------------------------------------------------------
(* Claims on the predictor's parts                                         *)

\* the scaler, encoders and feature names of p are those of the training run
\* that fitted p's model
PartsOfTrainingRun(p) ==
    LET run == TrainedWith(Get(p.model))
    IN  /\ p.scaler = run.scaler
        /\ p.label_encoders = run.label_encoders
        /\ p.feature_names = run.feature_names

\* the model, scaler, encoders and feature names of p are those of the
\* package in the file
PartsOfPackage(p, file) ==
    /\ file \notin {None, Unreadable}
    /\ p.model = PackageIn(file).model
    /\ p.scaler = PackageIn(file).scaler
    /\ p.label_encoders = PackageIn(file).label_encoders
    /\ p.feature_names = PackageIn(file).feature_names

\* C27: whenever the predictor has a model, its scaler, label_encoders and
\* feature_names were fitted in the training run of that model or restored
\* from the package that model came from
C27_PartsMatchModel ==
    (ml_predictor # None /\ Predictor.model # None)
    => \/ PartsOfTrainingRun(Predictor)
       \/ PartsOfPackage(Predictor, package_file)

\* the parts match the model right after a training call that returned a
\* model and right after a package load that returned True
PartsMatchAfterTrainingOrPackageLoad ==
    /\ (ReturnedFrom("train_compliance_model") /\ Predictor.model # None)
          => PartsOfTrainingRun(Predictor)
    /\ (last.op \in {"load_complete_package", "load_pretrained_model"}
          /\ last.value = Some(TRUE))
          => PartsOfPackage(Predictor, package_file)

LoadOfMissingOrWholeArtifact ==
    [][last'.op = "load_complete_package"
       => /\ package_file \in {None, Unreadable}
               => last'.value = Some(FALSE) /\ ml_predictor' = ml_predictor
          /\ last'.value = Some(TRUE)
               => /\ PartsOfPackage(Get(ml_predictor'), package_file)
                  /\ Get(ml_predictor').model_metrics
                       = PackageIn(package_file).model_metrics]_vars

\* C29: predict_compliance_risk returns a prediction only if, since the most
\* recent load_data, a training run selected a model or a package load
\* succeeded; until then it raises the precondition ValueError
C29_PredictionNeedsModelSinceLoad ==
    last.op = "predict_compliance_risk"
        => /\ last.outcome = "returned" => model_since_load
           /\ ml_predictor = None \/ Predictor.model = None
                => last.outcome = "ValueError" /\ last.message = MLModelNotTrained

\* load_data leaves a predictor without a model, and right after it
\* predict_compliance_risk raises the precondition ValueError
PredictionRightAfterLoadRaises ==
    [][/\ last'.op = "load_data" => ml_predictor' = Some(MLPredictor)
       /\ last.op = "load_data" /\ last'.op = "predict_compliance_risk"
            => last'.outcome = "ValueError" /\ last'.message = MLModelNotTrained]_vars

\* the code of categorical field f in the row the returned prediction scored
ScoredCode(f) ==
    LET scored == Get(last.value).risk_probability
        k == CHOOSE k \in DOMAIN scored.columns : scored.columns[k] = encoded[f]
    IN  scored.row[k]

\* the categorical fields predict_risk encoded in its last call
EncodedFields ==
    {f \in CategoricalSet \cap DOMAIN Predictor.label_encoders :
        /\ f \in DOMAIN last.arg[1]
        /\ \E k \in DOMAIN Predictor.feature_names : Predictor.feature_names[k] = encoded[f]}

\* C30: when predict_risk encodes a batch in which some row has an unseen
\* value in a categorical field, every row whose value for that field was
\* seen in training still gets its training-time code, in the encoded column
\* and in the row that is scored, and only the unseen value gets the
\* fallback code 0
C30_SeenRowsKeepTrainingCode ==
    ReturnedFrom("predict_risk")
        => \A f \in EncodedFields :
               (\E i \in DOMAIN last.arg : Unseen(Predictor, last.arg, i, f))
               => /\ \A i \in DOMAIN last.arg :
                         EncodedColumn(Predictor.label_encoders, last.arg, f)[i]
                             = IF Unseen(Predictor, last.arg, i, f) THEN 0
                               ELSE EncoderCode(Predictor.label_encoders[f],
                                                last.arg[i][f])
                  /\ ~Unseen(Predictor, last.arg, 1, f)
                       => ScoredCode(f) = EncoderCode(Predictor.label_encoders[f],
                                                      last.arg[1][f])

\* in a batch whose values for a field were all seen in training, every row
\* gets its training-time code; in a batch with an unseen value for the
\* field, every row gets the code 0
WholeColumnFallsBack ==
    ReturnedFrom("predict_risk")
        => \A f \in EncodedFields :
               /\ \A i \in DOMAIN last.arg :
                      EncodedColumn(Predictor.label_encoders, last.arg, f)[i]
                          = IF \E j \in DOMAIN last.arg : Unseen(Predictor, last.arg, j, f)
                            THEN 0
                            ELSE EncoderCode(Predictor.label_encoders[f], last.arg[i][f])
               /\ ScoredCode(f)
                      = IF \E j \in DOMAIN last.arg : Unseen(Predictor, last.arg, j, f)
                        THEN 0
                        ELSE EncoderCode(Predictor.label_encoders[f], last.arg[1][f])

====
